---- MODULE Spec2Model ----
(***************************************************************************)
(* A model of the buildify scene toolkit: the Gaussian-accumulator Context  *)
(* and SceneImpl (src/core/context.cpp), the entity Scene, Entity and       *)
(* Camera (src/core/scene.cpp, core/scene.hpp) and the Engine's scene       *)
(* registry (src/core/engine.cpp).                                          *)
(*                                                                          *)
(* A float is written as an exact rational <<numerator, denominator>> in     *)
(* lowest terms with a positive denominator, or as one of the IEEE-754       *)
(* values <<1, 0>> (+inf), <<-1, 0>> (-inf) and <<0, 0>> (NaN), which the     *)
(* arithmetic propagates as IEEE-754 does.  Rounding, overflow of finite     *)
(* values and the sign of zero are not modelled.  The vectors stored in a    *)
(* Transform or a Gaussian are tuples of integers.                           *)
(***************************************************************************)
EXTENDS Integers, Sequences, FiniteSets, TLC

\* The null shared_ptr / nullptr.
Null == "null"

(***************************************************************************)
(* Bounds of the model.                                                     *)
(***************************************************************************)
\* Longest entity sequence of the Scene that is explored.
MaxEntities == 3
\* Most Gaussians added to one SceneImpl.
MaxGaussians == 3
\* Most SceneImpl objects one Context creates.
MaxGScenes == 2
\* Most core::Scene objects one Engine creates.
MaxScenes == 2
\* Most update callbacks registered with one Engine.
MaxCallbacks == 2

(***************************************************************************)
(* Inputs.                                                                  *)
(***************************************************************************)
\* The objects the caller may construct: one Camera and one plain Entity.
Cameras == {"cam1"}
PlainEntities == {"ent1"}
Objs == Cameras \cup PlainEntities
\* Names given to entities, and names under which scenes are registered.
Names == {"A", "B"}
SceneNames == {"S", "T"}
\* Frame times passed to update.
DeltaTimes == {16, 33}
\* File names passed to exportTo3DGS.
FileNames == {"out.ply"}
\* Gaussians passed to addGaussian (test_main.cpp: positions (i,0,0)).
GaussianVals ==
    { [position |-> <<0, 0, 0>>, scale |-> <<1, 1, 1>>,
       rotation |-> <<0, 0, 0, 1>>, color |-> <<1, 1, 1, 1>>],
      [position |-> <<1, 0, 0>>, scale |-> <<1, 1, 1>>,
       rotation |-> <<0, 0, 0, 1>>, color |-> <<1, 1, 1, 1>>] }

(***************************************************************************)
(* State.                                                                   *)
(***************************************************************************)
VARIABLES
    \* buildify::Context and its SceneImpl objects
    initialized,      \* Context::Impl::initialized
    gaussians,        \* gaussians[s]: SceneImpl::gaussians of the s-th created scene
    addCalls,         \* addCalls[s]: number of addGaussian calls made on scene s
    \* Entity / Camera objects
    alive,            \* objects constructed and not yet destroyed
    ext,              \* objects the caller holds a shared_ptr to
    name_,            \* Entity::name_
    transform_,       \* Entity::transform_
    projection_type_, \* Camera::projection_type_
    fov_, aspect_ratio_, near_, far_,
    ortho_left_, ortho_right_, ortho_bottom_, ortho_top_,
    \* core::Scene
    entities_,        \* Scene::entities_
    active_camera_,   \* Scene::active_camera_
    \* core::Engine
    running_,         \* Engine::running_
    scenes,           \* Engine::Impl::scenes, name -> scene (Null: no entry)
    active_scene,     \* Engine::Impl::active_scene
    renderer,         \* Engine::Impl::renderer
    nscenes,          \* number of core::Scene objects the Engine has created
    update_callbacks_, \* Engine::update_callbacks_
    \* the last call made: what was called, with what, and what it gave back
    call

ctxVars == <<initialized, gaussians, addCalls>>
objVars == <<alive, ext, name_, transform_>>
camVars == <<projection_type_, fov_, aspect_ratio_, near_, far_,
             ortho_left_, ortho_right_, ortho_bottom_, ortho_top_>>
sceneVars == <<entities_, active_camera_>>
engineVars == <<running_, scenes, active_scene, renderer, nscenes, update_callbacks_>>
vars == <<ctxVars, objVars, camVars, sceneVars, engineVars, call>>
\* What an operation on one object leaves alone: the other objects.
notContext == <<objVars, camVars, sceneVars, engineVars>>
notScene == <<ctxVars, engineVars>>
notEngine == <<ctxVars, objVars, camVars, sceneVars>>

\* A record of one call: operation, argument, result and what it threw ("" if nothing).
Call(op, arg, ret, thrown) == [op |-> op, arg |-> arg, ret |-> ret, thrown |-> thrown]

(***************************************************************************)
(* buildify::Context and SceneImpl (src/core/context.cpp).                  *)
(***************************************************************************)
\* The SceneImpl objects created so far.
GScenes == 1..Len(gaussians)

\* SceneImpl::getGaussianCount
getGaussianCount(s) == Len(gaussians[s])

\* SceneImpl::computeRenderingLoss: 0.1f * gaussians.size()
computeRenderingLoss(s) == <<Len(gaussians[s]), 10>>

\* Context::initialize
Context_initialize ==
    /\ initialized' = TRUE
    /\ call' = Call("Context::initialize", Null, Null, "")
    /\ UNCHANGED <<gaussians, addCalls>>
    /\ UNCHANGED notContext

\* A createScene that does not look at initialized.
Context_createSceneUnchecked ==
    /\ Len(gaussians) < MaxGScenes
    /\ gaussians' = Append(gaussians, <<>>)
    /\ addCalls' = Append(addCalls, 0)
    /\ call' = Call("Context::createScene", Null, Len(gaussians) + 1, "")
    /\ UNCHANGED initialized
    /\ UNCHANGED notContext

\* Context::createScene
Context_createScene ==
    /\ IF ~initialized
       THEN /\ call' = Call("Context::createScene", Null, Null, "Context not initialized")
            /\ UNCHANGED <<initialized, gaussians, addCalls>>
       ELSE /\ Len(gaussians) < MaxGScenes
            /\ gaussians' = Append(gaussians, <<>>)
            /\ addCalls' = Append(addCalls, 0)
            /\ call' = Call("Context::createScene", Null, Len(gaussians) + 1, "")
            /\ UNCHANGED initialized
    /\ UNCHANGED notContext

\* An addGaussian that keeps one copy of each Gaussian.
SceneImpl_addGaussianUnique(s, g) ==
    /\ Len(gaussians[s]) < MaxGaussians
    /\ gaussians' = [gaussians EXCEPT
                       ![s] = IF \E i \in 1..Len(@) : @[i] = g THEN @ ELSE Append(@, g)]
    /\ addCalls' = [addCalls EXCEPT ![s] = @ + 1]
    /\ call' = Call("SceneImpl::addGaussian", <<s, g>>, Null, "")
    /\ UNCHANGED initialized
    /\ UNCHANGED notContext

\* SceneImpl::addGaussian
SceneImpl_addGaussian(s, g) ==
    /\ Len(gaussians[s]) < MaxGaussians
    /\ gaussians' = [gaussians EXCEPT ![s] = Append(@, g)]
    /\ addCalls' = [addCalls EXCEPT ![s] = @ + 1]
    /\ call' = Call("SceneImpl::addGaussian", <<s, g>>, Null, "")
    /\ UNCHANGED initialized
    /\ UNCHANGED notContext

\* SceneImpl::exportTo3DGS
SceneImpl_exportTo3DGS(s, filename) ==
    /\ call' = Call("SceneImpl::exportTo3DGS", <<s, filename>>, Null, "")
    /\ UNCHANGED <<initialized, gaussians, addCalls>>
    /\ UNCHANGED notContext

\* SceneImpl::computeRenderingLoss
SceneImpl_computeRenderingLoss(s) ==
    /\ call' = Call("SceneImpl::computeRenderingLoss", s, computeRenderingLoss(s), "")
    /\ UNCHANGED <<initialized, gaussians, addCalls>>
    /\ UNCHANGED notContext

\* SceneImpl::parameters
SceneImpl_parameters(s) ==
    /\ call' = Call("SceneImpl::parameters", s, <<>>, "")
    /\ UNCHANGED <<initialized, gaussians, addCalls>>
    /\ UNCHANGED notContext

(***************************************************************************)
(* float arithmetic (IEEE-754 special values, exact otherwise).             *)
(***************************************************************************)
NaN == <<0, 0>>
PosInf == <<1, 0>>
NegInf == <<-1, 0>>

Abs(i) == IF i < 0 THEN -i ELSE i
Sgn(i) == IF i < 0 THEN -1 ELSE IF i > 0 THEN 1 ELSE 0

RECURSIVE GCD(_, _)
GCD(a, b) == IF b = 0 THEN a ELSE GCD(b, a % b)

\* The float n/d: lowest terms, or the special value with the sign of n when d = 0.
Num(n, d) ==
    IF d = 0 THEN <<Sgn(n), 0>>
    ELSE LET g == GCD(Abs(n), Abs(d))
         IN  <<(Sgn(d) * n) \div g, Abs(d) \div g>>

\* The float of an integer literal.
R(i) == <<i, 1>>

IsNaN(a) == a = NaN
IsInf(a) == a \in {PosInf, NegInf}
IsFinite(a) == a[2] # 0

\* unary minus
RNeg(a) == <<-a[1], a[2]>>

\* a + b: inf + inf is inf, inf - inf is NaN.
RAdd(a, b) ==
    IF IsNaN(a) \/ IsNaN(b) THEN NaN
    ELSE IF IsInf(a) /\ IsInf(b) THEN (IF a = b THEN a ELSE NaN)
    ELSE IF IsInf(a) THEN a
    ELSE IF IsInf(b) THEN b
    ELSE LET g == GCD(a[2], b[2])
         IN  Num(a[1] * (b[2] \div g) + b[1] * (a[2] \div g), (a[2] \div g) * b[2])

\* a - b
RSub(a, b) == RAdd(a, RNeg(b))

\* a * b: 0 * inf is NaN.
RMul(a, b) == Num(a[1] * b[1], a[2] * b[2])

\* 1 / a: 1 / 0 is +inf, 1 / inf is 0.
RRecip(a) ==
    IF IsNaN(a) THEN NaN
    ELSE IF IsInf(a) THEN R(0)
    ELSE <<Sgn(a[1]) * a[2], Abs(a[1])>>

\* a / b: x / 0 is an infinity, 0 / 0 and inf / inf are NaN.
RDiv(a, b) == RMul(a, RRecip(b))

\* a > b: false when either is NaN.
RGt(a, b) == LET d == RSub(a, b) IN ~IsNaN(a) /\ ~IsNaN(b) /\ d[1] > 0

\* The largest r in lo..hi with r * r <= k (lo * lo <= k).
RECURSIVE ISqrtIn(_, _, _)
ISqrtIn(k, lo, hi) ==
    IF lo >= hi THEN lo
    ELSE LET mid == (lo + hi + 1) \div 2
         IN  IF mid * mid <= k THEN ISqrtIn(k, mid, hi) ELSE ISqrtIn(k, lo, mid - 1)

\* floor of the square root of k >= 0
ISqrt(k) == ISqrtIn(k, 0, IF k > 46340 THEN 46340 ELSE k)

\* std::sqrt: exact on squares of rationals, cut to one decimal otherwise.
RSqrt(a) ==
    IF IsNaN(a) \/ a = NegInf \/ a[1] < 0 THEN NaN
    ELSE IF a = PosInf THEN PosInf
    ELSE LET rn == ISqrt(a[1])
             rd == ISqrt(a[2])
         IN  IF rn * rn = a[1] /\ rd * rd = a[2] THEN Num(rn, rd)
             ELSE Num(ISqrt((a[1] * 100) \div a[2]), 10)

\* std::tan(fov * 0.5f * pi / 180.0f), to four decimals, for the fov values used.
TanHalfFov(fov) ==
    IF fov = <<45, 1>> THEN Num(4142, 10000)
    ELSE IF fov = <<60, 1>> THEN Num(5774, 10000)
    ELSE IF fov = <<90, 1>> THEN R(1)
    ELSE IF fov = <<0, 1>> THEN R(0)
    ELSE NaN

(***************************************************************************)
(* Vector3, Vector4, Matrix4, Quaternion, Transform (utils/math.hpp).       *)
(* A vector is a tuple of floats; a matrix is a tuple of four rows, so that *)
(* m[i][j] of the code is M[i + 1][j + 1] here.                             *)
(***************************************************************************)
\* A Vector3<float> / Vector4<float> from integer components.
Vec(v) == [i \in DOMAIN v |-> R(v[i])]

\* Vector3::operator-
VSub(a, b) == <<RSub(a[1], b[1]), RSub(a[2], b[2]), RSub(a[3], b[3])>>

\* Vector3::operator*(T)
VScale(a, k) == <<RMul(a[1], k), RMul(a[2], k), RMul(a[3], k)>>

\* Vector3::dot
dot(a, b) == RAdd(RAdd(RMul(a[1], b[1]), RMul(a[2], b[2])), RMul(a[3], b[3]))

\* A cross whose first component adds its two products.
crossAdding(a, b) ==
    << RAdd(RMul(a[2], b[3]), RMul(a[3], b[2])),
       RSub(RMul(a[3], b[1]), RMul(a[1], b[3])),
       RSub(RMul(a[1], b[2]), RMul(a[2], b[1])) >>

\* Vector3::cross
cross(a, b) ==
    << RSub(RMul(a[2], b[3]), RMul(a[3], b[2])),
       RSub(RMul(a[3], b[1]), RMul(a[1], b[3])),
       RSub(RMul(a[1], b[2]), RMul(a[2], b[1])) >>

\* Vector3::length
length(a) == RSqrt(RAdd(RAdd(RMul(a[1], a[1]), RMul(a[2], a[2])), RMul(a[3], a[3])))

\* A normalized that divides by the length twice.
normalizedTwice(a) ==
    LET len == length(a)
    IN  IF RGt(len, R(0)) THEN VScale(a, RDiv(R(1), RMul(len, len))) ELSE Vec(<<0, 0, 0>>)

\* Vector3::normalized
normalized(a) ==
    LET len == length(a)
    IN  IF RGt(len, R(0)) THEN VScale(a, RDiv(R(1), len)) ELSE Vec(<<0, 0, 0>>)

\* Matrix4::Matrix4 / Matrix4::identity: m{} then ones on the diagonal.
identity == [i \in 1..4 |-> [j \in 1..4 |-> IF i = j THEN R(1) ELSE R(0)]]

\* M with m[i][j] = x, in the code's 0-based indices.
Put(M, i, j, x) == [M EXCEPT ![i + 1][j + 1] = x]

\* Matrix4::translation
translation(v) == Put(Put(Put(identity, 0, 3, v[1]), 1, 3, v[2]), 2, 3, v[3])

\* Matrix4::scale
scale(v) == Put(Put(Put(identity, 0, 0, v[1]), 1, 1, v[2]), 2, 2, v[3])

\* Matrix4::perspective: result{} runs the default constructor, so it starts
\* from the identity too.
perspective(fov, aspect, near, far) ==
    LET tan_half_fov == TanHalfFov(fov)
        m00 == RDiv(R(1), RMul(aspect, tan_half_fov))
        m11 == RDiv(R(1), tan_half_fov)
        m22 == RDiv(RNeg(RAdd(far, near)), RSub(far, near))
        m23 == RDiv(RNeg(RMul(RMul(R(2), far), near)), RSub(far, near))
    IN  Put(Put(Put(Put(Put(Put(identity, 0, 0, m00), 1, 1, m11), 2, 2, m22),
                    2, 3, m23), 3, 2, R(-1)), 3, 3, R(0))

\* A product that accumulates onto the default-constructed result without
\* first setting the entry to 0.
MatMulOntoIdentity(A, B) ==
    [i \in 1..4 |-> [j \in 1..4 |->
        RAdd(RAdd(RAdd(RAdd(identity[i][j], RMul(A[i][1], B[1][j])), RMul(A[i][2], B[2][j])),
                  RMul(A[i][3], B[3][j])), RMul(A[i][4], B[4][j]))]]

\* Matrix4::operator*(Matrix4): result.m[i][j] = 0, then += over k = 0..3.
MatMul(A, B) ==
    [i \in 1..4 |-> [j \in 1..4 |->
        RAdd(RAdd(RAdd(RAdd(R(0), RMul(A[i][1], B[1][j])), RMul(A[i][2], B[2][j])),
                  RMul(A[i][3], B[3][j])), RMul(A[i][4], B[4][j]))]]

\* Matrix4::operator*(Vector4)
MatVec(M, v) ==
    [i \in 1..4 |->
        RAdd(RAdd(RAdd(RMul(M[i][1], v[1]), RMul(M[i][2], v[2])), RMul(M[i][3], v[3])),
             RMul(M[i][4], v[4])) ]

\* A to_matrix that writes the diagonal of the rotation block without the
\* leading 1.
QuatToMatrixNoOne(q) ==
    LET x == q[1]  y == q[2]  z == q[3]  w == q[4]
        xx == RMul(x, x)  xy == RMul(x, y)  xz == RMul(x, z)  xw == RMul(x, w)
        yy == RMul(y, y)  yz == RMul(y, z)  yw == RMul(y, w)
        zz == RMul(z, z)  zw == RMul(z, w)
        two(a) == RMul(R(2), a)
    IN  Put(Put(Put(Put(Put(Put(Put(Put(Put(identity,
            0, 0, RNeg(two(RAdd(yy, zz)))), 0, 1, two(RSub(xy, zw))), 0, 2, two(RAdd(xz, yw))),
            1, 0, two(RAdd(xy, zw))), 1, 1, RNeg(two(RAdd(xx, zz)))), 1, 2, two(RSub(yz, xw))),
            2, 0, two(RSub(xz, yw))), 2, 1, two(RAdd(yz, xw))), 2, 2, RNeg(two(RAdd(xx, yy))))

\* Quaternion::to_matrix, q = <<x, y, z, w>>
QuatToMatrix(q) ==
    LET x == q[1]  y == q[2]  z == q[3]  w == q[4]
        xx == RMul(x, x)  xy == RMul(x, y)  xz == RMul(x, z)  xw == RMul(x, w)
        yy == RMul(y, y)  yz == RMul(y, z)  yw == RMul(y, w)
        zz == RMul(z, z)  zw == RMul(z, w)
        two(a) == RMul(R(2), a)
        r00 == RSub(R(1), two(RAdd(yy, zz)))
        r01 == two(RSub(xy, zw))
        r02 == two(RAdd(xz, yw))
        r10 == two(RAdd(xy, zw))
        r11 == RSub(R(1), two(RAdd(xx, zz)))
        r12 == two(RSub(yz, xw))
        r20 == two(RSub(xz, yw))
        r21 == two(RAdd(yz, xw))
        r22 == RSub(R(1), two(RAdd(xx, yy)))
    IN  Put(Put(Put(Put(Put(Put(Put(Put(Put(identity,
            0, 0, r00), 0, 1, r01), 0, 2, r02),
            1, 0, r10), 1, 1, r11), 1, 2, r12),
            2, 0, r20), 2, 1, r21), 2, 2, r22)

\* A to_matrix that multiplies in the opposite order.
to_matrixScaleLast(t) ==
    MatMul(MatMul(scale(Vec(t.scale)), QuatToMatrix(Vec(t.rotation))),
           translation(Vec(t.position)))

\* Transform::to_matrix, t = [position, rotation, scale]
to_matrix(t) ==
    MatMul(MatMul(translation(Vec(t.position)), QuatToMatrix(Vec(t.rotation))),
           scale(Vec(t.scale)))

(***************************************************************************)
(* The math types called on their own: each call is pure, it leaves the     *)
(* objects of the program alone.                                            *)
(***************************************************************************)
\* Vectors passed to cross and normalized; the last has an infinite component.
VecVals ==
    { Vec(<<0, 0, 0>>), Vec(<<1, 0, 0>>), Vec(<<0, 3, 4>>), Vec(<<1, 2, 2>>),
      Vec(<<1, 2, 3>>), Vec(<<-2, 0, 5>>), <<PosInf, R(0), R(0)>> }
\* Points and directions a matrix is applied to.
Vec4Vals == { Vec(<<0, 0, 0, 1>>), Vec(<<1, 2, 3, 1>>), Vec(<<0, 0, -1, 0>>) }
\* Matrices that are multiplied; perspective with near == far has infinite entries.
MatVals ==
    { identity,
      translation(Vec(<<1, 2, 3>>)),
      scale(Vec(<<2, 3, 4>>)),
      QuatToMatrix(Vec(<<0, 1, 0, 0>>)),
      perspective(<<45, 1>>, <<16, 9>>, <<1, 10>>, <<1000, 1>>),
      perspective(<<45, 1>>, <<16, 9>>, <<1, 1>>, <<1, 1>>) }
\* Quaternions turned into matrices: the default one, a half turn, one that is
\* not of unit length and one with an infinite component.
QuatVals ==
    { Vec(<<0, 0, 0, 1>>), Vec(<<0, 1, 0, 0>>), Vec(<<1, 2, 3, 4>>),
      <<PosInf, R(0), R(0), R(1)>> }
\* Transforms turned into matrices.
MathTransformVals ==
    { [position |-> <<0, 0, 0>>, rotation |-> <<0, 0, 0, 1>>, scale |-> <<1, 1, 1>>],
      [position |-> <<1, 2, 3>>, rotation |-> <<0, 0, 0, 1>>, scale |-> <<1, 1, 1>>],
      [position |-> <<1, 2, 3>>, rotation |-> <<0, 0, 0, 1>>, scale |-> <<2, 0, -3>>],
      [position |-> <<1, 2, 3>>, rotation |-> <<0, 0, 0, 1>>, scale |-> <<2, 2, 2>>],
      [position |-> <<0, 0, 4>>, rotation |-> <<0, 1, 0, 0>>, scale |-> <<1, 3, 1>>] }

\* a.cross(b)
Vector3_cross(a, b) ==
    /\ call' = Call("Vector3::cross", <<a, b>>, cross(a, b), "")
    /\ UNCHANGED <<ctxVars, objVars, camVars, sceneVars, engineVars>>

\* v.normalized()
Vector3_normalized(v) ==
    /\ call' = Call("Vector3::normalized", v, normalized(v), "")
    /\ UNCHANGED <<ctxVars, objVars, camVars, sceneVars, engineVars>>

\* A * B
Matrix4_multiply(A, B) ==
    /\ call' = Call("Matrix4::operator*", <<A, B>>, MatMul(A, B), "")
    /\ UNCHANGED <<ctxVars, objVars, camVars, sceneVars, engineVars>>

\* M * v
Matrix4_transform(M, v) ==
    /\ call' = Call("Matrix4::operator*(Vector4)", <<M, v>>, MatVec(M, v), "")
    /\ UNCHANGED <<ctxVars, objVars, camVars, sceneVars, engineVars>>

\* q.to_matrix()
Quaternion_to_matrix(q) ==
    /\ call' = Call("Quaternion::to_matrix", q, QuatToMatrix(q), "")
    /\ UNCHANGED <<ctxVars, objVars, camVars, sceneVars, engineVars>>

\* t.to_matrix()
Transform_to_matrix(t) ==
    /\ call' = Call("Transform::to_matrix", t, to_matrix(t), "")
    /\ UNCHANGED <<ctxVars, objVars, camVars, sceneVars, engineVars>>

(***************************************************************************)
(* Entity and Camera objects (core/scene.hpp, src/core/scene.cpp).          *)
(***************************************************************************)
\* Transform's default member initialisers (math.hpp).
DefaultTransform ==
    [position |-> <<0, 0, 0>>, rotation |-> <<0, 0, 0, 1>>, scale |-> <<1, 1, 1>>]
\* Transforms passed to set_transform.
TransformVals ==
    { DefaultTransform,
      [position |-> <<1, 2, 3>>, rotation |-> <<0, 0, 0, 1>>, scale |-> <<2, 2, 2>>],
      [position |-> <<0, 0, 4>>, rotation |-> <<0, 1, 0, 0>>, scale |-> <<1, 1, 1>>] }
\* Targets and up vectors passed to look_at.
TargetVals == { <<0, 0, 0>>, <<0, 0, -5>> }
UpVals == { <<0, 1, 0>>, <<0, 0, -1>> }

\* Camera's default member initialisers (scene.hpp).
DefaultFov == <<45, 1>>
DefaultAspect == <<16, 9>>
DefaultNear == <<1, 10>>
DefaultFar == <<1000, 1>>
DefaultOrthoLow == <<-1, 1>>
DefaultOrthoHigh == <<1, 1>>
\* The <<fov, aspect ratio>> pairs passed to set_perspective.
LensVals == { <<DefaultFov, DefaultAspect>>, << <<60, 1>>, <<4, 3>> >> }
\* The <<near, far>> pairs passed to both setters; the last has near == far.
DepthVals ==
    { <<DefaultNear, DefaultFar>>, << <<-1, 1>>, <<1, 1>> >>, << <<1, 1>>, <<1, 1>> >> }
\* The <<left, right>> and <<bottom, top>> pairs passed to set_orthographic.
OrthoSpans == { <<DefaultOrthoLow, DefaultOrthoHigh>>, << <<-2, 1>>, <<2, 1>> >> }

\* Number of elements of seq equal to o.
RECURSIVE Occurrences(_, _)
Occurrences(seq, o) ==
    IF seq = <<>> THEN 0
    ELSE (IF Head(seq) = o THEN 1 ELSE 0) + Occurrences(Tail(seq), o)

\* The use count o would have were active_camera_ a std::weak_ptr.
UseCountWeakCamera(o, e, ents, cam) ==
    (IF o \in e THEN 1 ELSE 0) + Occurrences(ents, o)

\* shared_ptr use_count of o, nobody but the caller and the Scene holding entities:
\* the caller's pointer, every element of entities_ and active_camera_ each own o.
UseCount(o, e, ents, cam) ==
    (IF o \in e THEN 1 ELSE 0) + Occurrences(ents, o) + (IF cam = o THEN 1 ELSE 0)

\* The objects still owned by somebody once the holders are e, ents and cam.
Survivors(e, ents, cam) == { o \in alive : UseCount(o, e, ents, cam) > 0 }

\* The last shared_ptr to an object going away destroys it (virtual ~Entity).
ReleaseRefs(e, ents, cam) ==
    LET live == Survivors(e, ents, cam)
        keep(f, dflt) == [o \in DOMAIN f |-> IF o \in live THEN f[o] ELSE dflt]
    IN  /\ alive' = live
        /\ name_' = keep(name_, "")
        /\ transform_' = keep(transform_, DefaultTransform)
        /\ projection_type_' = keep(projection_type_, "Perspective")
        /\ fov_' = keep(fov_, DefaultFov)
        /\ aspect_ratio_' = keep(aspect_ratio_, DefaultAspect)
        /\ near_' = keep(near_, DefaultNear)
        /\ far_' = keep(far_, DefaultFar)
        /\ ortho_left_' = keep(ortho_left_, DefaultOrthoLow)
        /\ ortho_right_' = keep(ortho_right_, DefaultOrthoHigh)
        /\ ortho_bottom_' = keep(ortho_bottom_, DefaultOrthoLow)
        /\ ortho_top_' = keep(ortho_top_, DefaultOrthoHigh)

\* A constructor that zero-initialises the projection parameters of a Camera.
NewObjectZeroed(o, n) ==
    /\ alive' = alive \cup {o}
    /\ name_' = [name_ EXCEPT ![o] = n]
    /\ transform_' = [transform_ EXCEPT ![o] = DefaultTransform]
    /\ IF o \in Cameras
       THEN /\ projection_type_' = [projection_type_ EXCEPT ![o] = "Perspective"]
            /\ fov_' = [fov_ EXCEPT ![o] = R(0)]
            /\ aspect_ratio_' = [aspect_ratio_ EXCEPT ![o] = R(0)]
            /\ near_' = [near_ EXCEPT ![o] = R(0)]
            /\ far_' = [far_ EXCEPT ![o] = R(0)]
            /\ ortho_left_' = [ortho_left_ EXCEPT ![o] = R(0)]
            /\ ortho_right_' = [ortho_right_ EXCEPT ![o] = R(0)]
            /\ ortho_bottom_' = [ortho_bottom_ EXCEPT ![o] = R(0)]
            /\ ortho_top_' = [ortho_top_ EXCEPT ![o] = R(0)]
       ELSE UNCHANGED camVars

\* Entity::Entity(name) / Camera::Camera(name): the fields of a new object o.
NewObject(o, n) ==
    /\ alive' = alive \cup {o}
    /\ name_' = [name_ EXCEPT ![o] = n]
    /\ transform_' = [transform_ EXCEPT ![o] = DefaultTransform]
    /\ IF o \in Cameras
       THEN /\ projection_type_' = [projection_type_ EXCEPT ![o] = "Perspective"]
            /\ fov_' = [fov_ EXCEPT ![o] = DefaultFov]
            /\ aspect_ratio_' = [aspect_ratio_ EXCEPT ![o] = DefaultAspect]
            /\ near_' = [near_ EXCEPT ![o] = DefaultNear]
            /\ far_' = [far_ EXCEPT ![o] = DefaultFar]
            /\ ortho_left_' = [ortho_left_ EXCEPT ![o] = DefaultOrthoLow]
            /\ ortho_right_' = [ortho_right_ EXCEPT ![o] = DefaultOrthoHigh]
            /\ ortho_bottom_' = [ortho_bottom_ EXCEPT ![o] = DefaultOrthoLow]
            /\ ortho_top_' = [ortho_top_ EXCEPT ![o] = DefaultOrthoHigh]
       ELSE UNCHANGED camVars

\* std::make_shared<Entity>(n) / std::make_shared<Camera>(n) by the caller.
Construct(o, n) ==
    /\ o \notin alive
    /\ NewObject(o, n)
    /\ ext' = ext \cup {o}
    /\ call' = Call("make_shared", <<o, n>>, o, "")
    /\ UNCHANGED sceneVars
    /\ UNCHANGED notScene

\* The caller drops its shared_ptr to o.
Release(o) ==
    /\ o \in ext
    /\ ext' = ext \ {o}
    /\ ReleaseRefs(ext \ {o}, entities_, active_camera_)
    /\ call' = Call("release", o, Null, "")
    /\ UNCHANGED sceneVars
    /\ UNCHANGED notScene

\* Entity::set_name
Entity_set_name(o, n) ==
    /\ o \in ext
    /\ name_' = [name_ EXCEPT ![o] = n]
    /\ call' = Call("Entity::set_name", <<o, n>>, Null, "")
    /\ UNCHANGED <<alive, ext, transform_, camVars, sceneVars>>
    /\ UNCHANGED notScene

\* Entity::set_transform
Entity_set_transform(o, t) ==
    /\ o \in ext
    /\ transform_' = [transform_ EXCEPT ![o] = t]
    /\ call' = Call("Entity::set_transform", <<o, t>>, Null, "")
    /\ UNCHANGED <<alive, ext, name_, camVars, sceneVars>>
    /\ UNCHANGED notScene

\* Entity::update: the virtual hook, empty in Entity and not overridden by Camera.
Entity_update(o, dt) ==
    /\ o \in ext
    /\ call' = Call("Entity::update", <<o, dt>>, Null, "")
    /\ UNCHANGED <<objVars, camVars, sceneVars>>
    /\ UNCHANGED notScene

(***************************************************************************)
(* core::Scene (src/core/scene.cpp).                                        *)
(***************************************************************************)
\* std::find / std::find_if from position i: the first position at or after i
\* whose element is in match, Len(seq) + 1 (the end iterator) if there is none.
RECURSIVE find_if(_, _, _)
find_if(seq, i, match) ==
    IF i > Len(seq) THEN i
    ELSE IF seq[i] \in match THEN i
    ELSE find_if(seq, i + 1, match)

\* std::vector::erase(it)
erase(seq, i) == SubSeq(seq, 1, i - 1) \o SubSeq(seq, i + 1, Len(seq))

\* A find_entity that keeps scanning and answers with the last match.
find_entityLast(name) ==
    LET hits == { i \in 1..Len(entities_) : name_[entities_[i]] = name }
    IN  IF hits # {} THEN entities_[CHOOSE i \in hits : \A j \in hits : j <= i] ELSE Null

\* Scene::find_entity
find_entity(name) ==
    LET it == find_if(entities_, 1, { o \in Objs : name_[o] = name })
    IN  IF it # Len(entities_) + 1 THEN entities_[it] ELSE Null

\* Scene::get_active_camera
get_active_camera == active_camera_

\* An add_entity that skips an entity already in the sequence.
Scene_add_entityOnce(entity) ==
    /\ entity \in ext
    /\ Len(entities_) < MaxEntities
    /\ entities_' = IF Occurrences(entities_, entity) > 0 THEN entities_
                    ELSE Append(entities_, entity)
    /\ call' = Call("Scene::add_entity", entity, Null, "")
    /\ UNCHANGED <<objVars, camVars, active_camera_>>
    /\ UNCHANGED notScene

\* Scene::add_entity (entity is a valid pointer: the log line reads its name).
Scene_add_entity(entity) ==
    /\ entity \in ext
    /\ Len(entities_) < MaxEntities
    /\ entities_' = Append(entities_, entity)
    /\ call' = Call("Scene::add_entity", entity, Null, "")
    /\ UNCHANGED <<objVars, camVars, active_camera_>>
    /\ UNCHANGED notScene

\* Scene::create_entity<T>(n): make_shared, add_entity, return the pointer.
Scene_create_entity(o, n) ==
    /\ o \notin alive
    /\ Len(entities_) < MaxEntities
    /\ NewObject(o, n)
    /\ entities_' = Append(entities_, o)
    /\ ext' = ext \cup {o}
    /\ call' = Call("Scene::create_entity", <<o, n>>, o, "")
    /\ UNCHANGED active_camera_
    /\ UNCHANGED notScene

\* A remove_entity in the erase-remove idiom: every occurrence goes.
Scene_remove_entityAll(entity) ==
    /\ entity \in ext \cup {Null}
    /\ entities_' = SelectSeq(entities_, LAMBDA x : x # entity)
    /\ ReleaseRefs(ext, entities_', active_camera_)
    /\ call' = Call("Scene::remove_entity", entity, Null, "")
    /\ UNCHANGED <<ext, active_camera_>>
    /\ UNCHANGED notScene

\* A remove_entity that also resets the active camera when it is the entity
\* removed.
Scene_remove_entityResetting(entity) ==
    /\ entity \in ext \cup {Null}
    /\ LET it == find_if(entities_, 1, {entity})
       IN  /\ entities_' = IF it # Len(entities_) + 1 THEN erase(entities_, it)
                           ELSE entities_
           /\ active_camera_' = IF active_camera_ = entity THEN Null ELSE active_camera_
           /\ ReleaseRefs(ext, entities_', active_camera_')
    /\ call' = Call("Scene::remove_entity", entity, Null, "")
    /\ UNCHANGED ext
    /\ UNCHANGED notScene

\* Scene::remove_entity
Scene_remove_entity(entity) ==
    /\ entity \in ext \cup {Null}
    /\ LET it == find_if(entities_, 1, {entity})
       IN  /\ entities_' = IF it # Len(entities_) + 1 THEN erase(entities_, it)
                           ELSE entities_
           /\ ReleaseRefs(ext, entities_', active_camera_)
    /\ call' = Call("Scene::remove_entity", entity, Null, "")
    /\ UNCHANGED <<ext, active_camera_>>
    /\ UNCHANGED notScene

\* Scene::find_entity; keep says whether the caller stores the pointer it gets.
Scene_find_entity(name, keep) ==
    /\ ext' = IF keep /\ find_entity(name) # Null
              THEN ext \cup {find_entity(name)} ELSE ext
    /\ call' = Call("Scene::find_entity", name, find_entity(name), "")
    /\ UNCHANGED <<alive, name_, transform_, camVars, sceneVars>>
    /\ UNCHANGED notScene

\* A set_active_camera that takes only cameras that are in the entity sequence.
Scene_set_active_cameraMember(camera) ==
    /\ camera \in (ext \cap Cameras) \cup {Null}
    /\ active_camera_' = IF camera = Null \/ Occurrences(entities_, camera) > 0
                         THEN camera ELSE active_camera_
    /\ ReleaseRefs(ext, entities_, active_camera_')
    /\ call' = Call("Scene::set_active_camera", camera, Null, "")
    /\ UNCHANGED <<ext, entities_>>
    /\ UNCHANGED notScene

\* Scene::set_active_camera
Scene_set_active_camera(camera) ==
    /\ camera \in (ext \cap Cameras) \cup {Null}
    /\ active_camera_' = camera
    /\ ReleaseRefs(ext, entities_, active_camera_')
    /\ call' = Call("Scene::set_active_camera", camera, Null, "")
    /\ UNCHANGED <<ext, entities_>>
    /\ UNCHANGED notScene

\* Scene::get_active_camera; keep says whether the caller stores the pointer it gets.
Scene_get_active_camera(keep) ==
    /\ ext' = IF keep /\ get_active_camera # Null
              THEN ext \cup {get_active_camera} ELSE ext
    /\ call' = Call("Scene::get_active_camera", Null, get_active_camera, "")
    /\ UNCHANGED <<alive, name_, transform_, camVars, sceneVars>>
    /\ UNCHANGED notScene

\* An update that visits every distinct entity once.
Scene_updateDistinct(delta_time) ==
    /\ LET firsts == SelectSeq([i \in 1..Len(entities_) |-> i],
                               LAMBDA i : \A j \in 1..(i - 1) : entities_[j] # entities_[i])
       IN  call' = Call("Scene::update", delta_time,
                        [k \in 1..Len(firsts) |-> <<entities_[firsts[k]], delta_time>>], "")
    /\ UNCHANGED <<objVars, camVars, sceneVars>>
    /\ UNCHANGED notScene

\* Scene::update: ret lists the update hooks invoked, in order, as <<entity, dt>>.
Scene_update(delta_time) ==
    /\ call' = Call("Scene::update", delta_time,
                    [i \in 1..Len(entities_) |-> <<entities_[i], delta_time>>], "")
    /\ UNCHANGED <<objVars, camVars, sceneVars>>
    /\ UNCHANGED notScene

\* OpenGLRenderer::render_scene(scene): ret is the camera it finds and what it
\* logs; its copy of the pointer goes away when it returns.
OpenGLRenderer_render_scene ==
    /\ LET camera == get_active_camera
       IN  call' = Call("OpenGLRenderer::render_scene", Null,
                        [camera |-> camera,
                         log |-> IF camera = Null THEN <<"No active camera in scene">>
                                 ELSE <<>>], "")
    /\ UNCHANGED <<objVars, camVars, sceneVars>>
    /\ UNCHANGED notScene

(***************************************************************************)
(* Camera (src/core/scene.cpp).                                             *)
(***************************************************************************)
\* A set_perspective that stores the parameters and forgets the mode tag.
Camera_set_perspectiveNoTag(c, fov, aspect_ratio, near, far) ==
    /\ c \in ext \cap Cameras
    /\ fov_' = [fov_ EXCEPT ![c] = fov]
    /\ aspect_ratio_' = [aspect_ratio_ EXCEPT ![c] = aspect_ratio]
    /\ near_' = [near_ EXCEPT ![c] = near]
    /\ far_' = [far_ EXCEPT ![c] = far]
    /\ call' = Call("Camera::set_perspective", <<c, fov, aspect_ratio, near, far>>, Null, "")
    /\ UNCHANGED <<objVars, sceneVars, projection_type_,
                   ortho_left_, ortho_right_, ortho_bottom_, ortho_top_>>
    /\ UNCHANGED notScene

\* Camera::set_perspective
Camera_set_perspective(c, fov, aspect_ratio, near, far) ==
    /\ c \in ext \cap Cameras
    /\ projection_type_' = [projection_type_ EXCEPT ![c] = "Perspective"]
    /\ fov_' = [fov_ EXCEPT ![c] = fov]
    /\ aspect_ratio_' = [aspect_ratio_ EXCEPT ![c] = aspect_ratio]
    /\ near_' = [near_ EXCEPT ![c] = near]
    /\ far_' = [far_ EXCEPT ![c] = far]
    /\ call' = Call("Camera::set_perspective", <<c, fov, aspect_ratio, near, far>>, Null, "")
    /\ UNCHANGED <<objVars, sceneVars, ortho_left_, ortho_right_, ortho_bottom_, ortho_top_>>
    /\ UNCHANGED notScene

\* A set_orthographic that puts the perspective parameters back to their defaults.
Camera_set_orthographicClearing(c, left, right, bottom, top, near, far) ==
    /\ c \in ext \cap Cameras
    /\ projection_type_' = [projection_type_ EXCEPT ![c] = "Orthographic"]
    /\ ortho_left_' = [ortho_left_ EXCEPT ![c] = left]
    /\ ortho_right_' = [ortho_right_ EXCEPT ![c] = right]
    /\ ortho_bottom_' = [ortho_bottom_ EXCEPT ![c] = bottom]
    /\ ortho_top_' = [ortho_top_ EXCEPT ![c] = top]
    /\ near_' = [near_ EXCEPT ![c] = near]
    /\ far_' = [far_ EXCEPT ![c] = far]
    /\ fov_' = [fov_ EXCEPT ![c] = DefaultFov]
    /\ aspect_ratio_' = [aspect_ratio_ EXCEPT ![c] = DefaultAspect]
    /\ call' = Call("Camera::set_orthographic",
                    <<c, left, right, bottom, top, near, far>>, Null, "")
    /\ UNCHANGED <<objVars, sceneVars>>
    /\ UNCHANGED notScene

\* Camera::set_orthographic
Camera_set_orthographic(c, left, right, bottom, top, near, far) ==
    /\ c \in ext \cap Cameras
    /\ projection_type_' = [projection_type_ EXCEPT ![c] = "Orthographic"]
    /\ ortho_left_' = [ortho_left_ EXCEPT ![c] = left]
    /\ ortho_right_' = [ortho_right_ EXCEPT ![c] = right]
    /\ ortho_bottom_' = [ortho_bottom_ EXCEPT ![c] = bottom]
    /\ ortho_top_' = [ortho_top_ EXCEPT ![c] = top]
    /\ near_' = [near_ EXCEPT ![c] = near]
    /\ far_' = [far_ EXCEPT ![c] = far]
    /\ call' = Call("Camera::set_orthographic",
                    <<c, left, right, bottom, top, near, far>>, Null, "")
    /\ UNCHANGED <<objVars, sceneVars, fov_, aspect_ratio_>>
    /\ UNCHANGED notScene

\* The matrix the else branch of Camera::get_projection_matrix fills in: a
\* default-constructed Matrix4 with six entries overwritten.
ortho(c) ==
    LET width == RSub(ortho_right_[c], ortho_left_[c])
        height == RSub(ortho_top_[c], ortho_bottom_[c])
        depth == RSub(far_[c], near_[c])
        m00 == RDiv(R(2), width)
        m11 == RDiv(R(2), height)
        m22 == RDiv(R(-2), depth)
        m03 == RDiv(RNeg(RAdd(ortho_right_[c], ortho_left_[c])), width)
        m13 == RDiv(RNeg(RAdd(ortho_top_[c], ortho_bottom_[c])), height)
        m23 == RDiv(RNeg(RAdd(far_[c], near_[c])), depth)
    IN  Put(Put(Put(Put(Put(Put(identity, 0, 0, m00), 1, 1, m11), 2, 2, m22),
                    0, 3, m03), 1, 3, m13), 2, 3, m23)

\* A get_projection_matrix that builds the orthographic matrix in either mode.
get_projection_matrixOrthoOnly(c) == ortho(c)

\* The result of Camera::get_projection_matrix.
get_projection_matrix(c) ==
    IF projection_type_[c] = "Perspective"
    THEN perspective(fov_[c], aspect_ratio_[c], near_[c], far_[c])
    ELSE ortho(c)

\* Camera::get_projection_matrix (const)
Camera_get_projection_matrix(c) ==
    /\ c \in ext \cap Cameras
    /\ call' = Call("Camera::get_projection_matrix", c, get_projection_matrix(c), "")
    /\ UNCHANGED <<objVars, camVars, sceneVars>>
    /\ UNCHANGED notScene

\* A view matrix whose translation column is the position itself.
view_matrixUnmoved(t) ==
    LET pos == Vec(t.position)
        forward == MatVec(QuatToMatrix(Vec(t.rotation)), Vec(<<0, 0, -1, 0>>))
        up == MatVec(QuatToMatrix(Vec(t.rotation)), Vec(<<0, 1, 0, 0>>))
        f == <<forward[1], forward[2], forward[3]>>
        r == normalized(cross(f, <<up[1], up[2], up[3]>>))
        u == normalized(cross(r, f))
    IN  << <<r[1], r[2], r[3], pos[1]>>,
           <<u[1], u[2], u[3], pos[2]>>,
           <<RNeg(f[1]), RNeg(f[2]), RNeg(f[3]), pos[3]>>,
           <<R(0), R(0), R(0), R(1)>> >>

\* The matrix Camera::get_view_matrix builds from the transform t.
view_matrix(t) ==
    LET pos == Vec(t.position)
        forward == MatVec(QuatToMatrix(Vec(t.rotation)), Vec(<<0, 0, -1, 0>>))
        up == MatVec(QuatToMatrix(Vec(t.rotation)), Vec(<<0, 1, 0, 0>>))
        f == <<forward[1], forward[2], forward[3]>>
        r == normalized(cross(f, <<up[1], up[2], up[3]>>))
        u == normalized(cross(r, f))
    IN  << <<r[1], r[2], r[3], RNeg(dot(r, pos))>>,
           <<u[1], u[2], u[3], RNeg(dot(u, pos))>>,
           <<RNeg(f[1]), RNeg(f[2]), RNeg(f[3]), dot(f, pos)>>,
           <<R(0), R(0), R(0), R(1)>> >>

\* The result of Camera::get_view_matrix: built from transform_ alone.
get_view_matrix(c) == view_matrix(transform_[c])

\* Camera::get_view_matrix (const)
Camera_get_view_matrix(c) ==
    /\ c \in ext \cap Cameras
    /\ call' = Call("Camera::get_view_matrix", c, get_view_matrix(c), "")
    /\ UNCHANGED <<objVars, camVars, sceneVars>>
    /\ UNCHANGED notScene

\* The local rotation_matrix that Camera::look_at fills in.
look_at_rotation_matrix(c, target, up) ==
    LET forward == normalized(VSub(Vec(target), Vec(transform_[c].position)))
        right == normalized(cross(forward, Vec(up)))
        new_up == cross(right, forward)
    IN  Put(Put(Put(Put(Put(Put(Put(Put(Put(identity,
            0, 0, right[1]), 0, 1, right[2]), 0, 2, right[3]),
            1, 0, new_up[1]), 1, 1, new_up[2]), 1, 2, new_up[3]),
            2, 0, RNeg(forward[1])), 2, 1, RNeg(forward[2])), 2, 2, RNeg(forward[3]))

\* A look_at that turns the camera: it stores a rotation when the matrix it
\* has built is not the one the camera's rotation already gives.
Camera_look_atTurning(c, target, up) ==
    /\ c \in ext \cap Cameras
    /\ transform_' =
          [transform_ EXCEPT ![c].rotation =
              IF look_at_rotation_matrix(c, target, up) = QuatToMatrix(Vec(@))
              THEN @ ELSE <<1, 0, 0, 0>>]
    /\ call' = Call("Camera::look_at", <<c, target, up>>, Null, "")
    /\ UNCHANGED <<alive, ext, name_, camVars, sceneVars>>
    /\ UNCHANGED notScene

\* Camera::look_at: forward, right, new_up and rotation_matrix are locals,
\* nothing is stored.
Camera_look_at(c, target, up) ==
    /\ c \in ext \cap Cameras
    /\ call' = Call("Camera::look_at", <<c, target, up>>, Null, "")
    /\ UNCHANGED <<objVars, camVars, sceneVars>>
    /\ UNCHANGED notScene

(***************************************************************************)
(* core::Engine (src/core/engine.cpp): lifecycle and scene registry.        *)
(***************************************************************************)
\* Renderers passed to set_renderer.
Renderers == {"renderer1"}

\* The i-th core::Scene object the Engine creates, and those created so far.
SceneObj(i) == "scene" \o ToString(i)
SceneObjs == { SceneObj(i) : i \in 1..nscenes }

\* An empty std::unordered_map.
EmptyMap == [n \in {} |-> Null]

\* Engine::get_scene
get_scene(name) == IF name \in DOMAIN scenes THEN scenes[name] ELSE Null

\* Engine::initialize
Engine_initialize ==
    /\ running_' = TRUE
    /\ call' = Call("Engine::initialize", Null, TRUE, "")
    /\ UNCHANGED <<scenes, active_scene, renderer, nscenes, update_callbacks_>>
    /\ UNCHANGED notEngine

\* A shutdown without the early return on !running_.
Engine_shutdownUnguarded ==
    /\ running_' = FALSE
    /\ scenes' = EmptyMap
    /\ active_scene' = Null
    /\ call' = Call("Engine::shutdown", Null,
                    IF renderer # Null THEN <<"shutdown">> ELSE <<>>, "")
    /\ UNCHANGED <<renderer, nscenes, update_callbacks_>>
    /\ UNCHANGED notEngine

\* Engine::shutdown: ret lists the calls made on the renderer.
Engine_shutdown ==
    /\ IF ~running_
       THEN /\ call' = Call("Engine::shutdown", Null, <<>>, "")
            /\ UNCHANGED engineVars
       ELSE /\ running_' = FALSE
            /\ scenes' = EmptyMap
            /\ active_scene' = Null
            /\ call' = Call("Engine::shutdown", Null,
                            IF renderer # Null THEN <<"shutdown">> ELSE <<>>, "")
            /\ UNCHANGED <<renderer, nscenes, update_callbacks_>>
    /\ UNCHANGED notEngine

\* Engine::stop
Engine_stop ==
    /\ running_' = FALSE
    /\ call' = Call("Engine::stop", Null, Null, "")
    /\ UNCHANGED <<scenes, active_scene, renderer, nscenes, update_callbacks_>>
    /\ UNCHANGED notEngine

\* A create_scene that makes every new scene the active one.
Engine_create_sceneActivating(name) ==
    /\ nscenes < MaxScenes
    /\ nscenes' = nscenes + 1
    /\ scenes' = [n \in DOMAIN scenes \cup {name} |->
                    IF n = name THEN SceneObj(nscenes + 1) ELSE scenes[n]]
    /\ active_scene' = SceneObj(nscenes + 1)
    /\ call' = Call("Engine::create_scene", name, SceneObj(nscenes + 1), "")
    /\ UNCHANGED <<running_, renderer, update_callbacks_>>
    /\ UNCHANGED notEngine

\* Engine::create_scene
Engine_create_scene(name) ==
    /\ nscenes < MaxScenes
    /\ nscenes' = nscenes + 1
    /\ scenes' = [n \in DOMAIN scenes \cup {name} |->
                    IF n = name THEN SceneObj(nscenes + 1) ELSE scenes[n]]
    /\ active_scene' = IF active_scene = Null THEN SceneObj(nscenes + 1) ELSE active_scene
    /\ call' = Call("Engine::create_scene", name, SceneObj(nscenes + 1), "")
    /\ UNCHANGED <<running_, renderer, update_callbacks_>>
    /\ UNCHANGED notEngine

\* Engine::get_scene (const)
Engine_get_scene(name) ==
    /\ call' = Call("Engine::get_scene", name, get_scene(name), "")
    /\ UNCHANGED engineVars
    /\ UNCHANGED notEngine

\* Engine::set_active_scene
Engine_set_active_scene(scene) ==
    /\ scene \in SceneObjs \cup {Null}
    /\ active_scene' = scene
    /\ call' = Call("Engine::set_active_scene", scene, Null, "")
    /\ UNCHANGED <<running_, scenes, renderer, nscenes, update_callbacks_>>
    /\ UNCHANGED notEngine

\* Engine::set_renderer
Engine_set_renderer(r) ==
    /\ renderer' = r
    /\ call' = Call("Engine::set_renderer", r, Null, "")
    /\ UNCHANGED <<running_, scenes, active_scene, nscenes, update_callbacks_>>
    /\ UNCHANGED notEngine

\* Engine::is_running (const)
Engine_is_running ==
    /\ call' = Call("Engine::is_running", Null, running_, "")
    /\ UNCHANGED engineVars
    /\ UNCHANGED notEngine

\* The callables passed to add_update_callback; each returns normally.
Callbacks == {"cb1", "cb2"}

\* Engine::add_update_callback: emplace_back on update_callbacks_.
Engine_add_update_callback(callback) ==
    /\ Len(update_callbacks_) < MaxCallbacks
    /\ update_callbacks_' = Append(update_callbacks_, callback)
    /\ call' = Call("Engine::add_update_callback", callback, Null, "")
    /\ UNCHANGED <<running_, scenes, active_scene, renderer, nscenes>>
    /\ UNCHANGED notEngine

\* An update that runs the callbacks before it updates the active scene.
Engine_updateCallbacksFirst(delta_time) ==
    /\ call' = Call("Engine::update", delta_time,
                    IF ~running_ THEN <<>>
                    ELSE [i \in 1..Len(update_callbacks_) |->
                             <<"callback", update_callbacks_[i], delta_time>>]
                         \o (IF active_scene # Null
                             THEN << <<"Scene::update", active_scene, delta_time>> >>
                             ELSE <<>>), "")
    /\ UNCHANGED engineVars
    /\ UNCHANGED notEngine

\* Engine::update: ret lists the calls it makes, in order: the update of the
\* active scene, then the callbacks.
Engine_update(delta_time) ==
    /\ call' = Call("Engine::update", delta_time,
                    IF ~running_ THEN <<>>
                    ELSE (IF active_scene # Null
                          THEN << <<"Scene::update", active_scene, delta_time>> >>
                          ELSE <<>>)
                         \o [i \in 1..Len(update_callbacks_) |->
                                <<"callback", update_callbacks_[i], delta_time>>], "")
    /\ UNCHANGED engineVars
    /\ UNCHANGED notEngine

\* A render that does not look at running_.
Engine_renderStopped ==
    /\ call' = Call("Engine::render", Null,
                    IF renderer = Null \/ active_scene = Null THEN <<>>
                    ELSE << <<"begin_frame", renderer>>,
                            <<"render_scene", renderer, active_scene>>,
                            <<"end_frame", renderer>> >>, "")
    /\ UNCHANGED engineVars
    /\ UNCHANGED notEngine

\* Engine::render: ret lists the calls made on the renderer, in order.
Engine_render ==
    /\ call' = Call("Engine::render", Null,
                    IF ~running_ \/ renderer = Null \/ active_scene = Null THEN <<>>
                    ELSE << <<"begin_frame", renderer>>,
                            <<"render_scene", renderer, active_scene>>,
                            <<"end_frame", renderer>> >>, "")
    /\ UNCHANGED engineVars
    /\ UNCHANGED notEngine

(***************************************************************************)
(* Initial state and specifications.                                        *)
(***************************************************************************)
\* A Context, a Scene and an Engine just constructed; no Entity exists yet.
Init ==
    /\ initialized = FALSE
    /\ gaussians = <<>>
    /\ addCalls = <<>>
    /\ alive = {}
    /\ ext = {}
    /\ name_ = [o \in Objs |-> ""]
    /\ transform_ = [o \in Objs |-> DefaultTransform]
    /\ projection_type_ = [c \in Cameras |-> "Perspective"]
    /\ fov_ = [c \in Cameras |-> DefaultFov]
    /\ aspect_ratio_ = [c \in Cameras |-> DefaultAspect]
    /\ near_ = [c \in Cameras |-> DefaultNear]
    /\ far_ = [c \in Cameras |-> DefaultFar]
    /\ ortho_left_ = [c \in Cameras |-> DefaultOrthoLow]
    /\ ortho_right_ = [c \in Cameras |-> DefaultOrthoHigh]
    /\ ortho_bottom_ = [c \in Cameras |-> DefaultOrthoLow]
    /\ ortho_top_ = [c \in Cameras |-> DefaultOrthoHigh]
    /\ entities_ = <<>>
    /\ active_camera_ = Null
    /\ running_ = FALSE
    /\ scenes = EmptyMap
    /\ active_scene = Null
    /\ renderer = Null
    /\ nscenes = 0
    /\ update_callbacks_ = <<>>
    /\ call = Call("none", Null, Null, "")

\* The Context and its Gaussian scenes.
NextContext ==
    \/ Context_initialize
    \/ Context_createScene
    \/ \E s \in GScenes, g \in GaussianVals : SceneImpl_addGaussian(s, g)
    \/ \E s \in GScenes, f \in FileNames : SceneImpl_exportTo3DGS(s, f)
    \/ \E s \in GScenes : SceneImpl_computeRenderingLoss(s)
    \/ \E s \in GScenes : SceneImpl_parameters(s)

SpecContext == Init /\ [][NextContext]_vars

\* One Scene, the entities a caller makes, adds, renames, removes and lets go of.
NextScene ==
    \/ \E o \in Objs, n \in Names : Construct(o, n)
    \/ \E o \in Objs : Release(o)
    \/ \E o \in Objs, n \in Names : Entity_set_name(o, n)
    \/ \E o \in Objs, n \in Names : Scene_create_entity(o, n)
    \/ \E o \in Objs : Scene_add_entity(o)
    \/ \E o \in Objs \cup {Null} : Scene_remove_entity(o)
    \/ \E n \in Names, keep \in BOOLEAN : Scene_find_entity(n, keep)
    \/ \E c \in Cameras \cup {Null} : Scene_set_active_camera(c)
    \/ \E keep \in BOOLEAN : Scene_get_active_camera(keep)
    \/ \E dt \in DeltaTimes : Scene_update(dt)
    \/ OpenGLRenderer_render_scene

SpecScene == Init /\ [][NextScene]_vars

\* Lookups by name: entities of a Scene, scenes of an Engine.
NextLookup ==
    \/ \E o \in Objs, n \in Names : Construct(o, n)
    \/ \E o \in Objs, n \in Names : Entity_set_name(o, n)
    \/ \E o \in Objs : Scene_add_entity(o)
    \/ \E o \in Objs \cup {Null} : Scene_remove_entity(o)
    \/ \E n \in Names : Scene_find_entity(n, FALSE)
    \/ Engine_initialize
    \/ Engine_shutdown
    \/ \E n \in SceneNames : Engine_create_scene(n)
    \/ \E n \in SceneNames : Engine_get_scene(n)

SpecLookup == Init /\ [][NextLookup]_vars

\* One Camera: its projection setters and every other Camera and Entity operation.
NextCamera ==
    \/ \E c \in Cameras, n \in Names : Construct(c, n)
    \/ \E c \in Cameras : Release(c)
    \/ \E c \in Cameras, lens \in LensVals, nf \in DepthVals :
          Camera_set_perspective(c, lens[1], lens[2], nf[1], nf[2])
    \/ \E c \in Cameras, lr, bt \in OrthoSpans, nf \in DepthVals :
          Camera_set_orthographic(c, lr[1], lr[2], bt[1], bt[2], nf[1], nf[2])
    \/ \E c \in Cameras : Camera_get_projection_matrix(c)
    \/ \E c \in Cameras : Camera_get_view_matrix(c)
    \/ \E c \in Cameras, target \in TargetVals, up \in UpVals : Camera_look_at(c, target, up)
    \/ \E c \in Cameras, n \in Names : Entity_set_name(c, n)
    \/ \E c \in Cameras, t \in TransformVals : Entity_set_transform(c, t)
    \/ \E c \in Cameras, dt \in DeltaTimes : Entity_update(c, dt)

SpecCamera == Init /\ [][NextCamera]_vars

\* The vector, matrix, quaternion and transform operations, called on values.
NextMath ==
    \/ \E a \in VecVals, b \in VecVals : Vector3_cross(a, b)
    \/ \E v \in VecVals : Vector3_normalized(v)
    \/ \E A \in MatVals, B \in MatVals : Matrix4_multiply(A, B)
    \/ \E M \in MatVals, v \in Vec4Vals : Matrix4_transform(M, v)
    \/ \E q \in QuatVals : Quaternion_to_matrix(q)
    \/ \E t \in MathTransformVals : Transform_to_matrix(t)

SpecMath == Init /\ [][NextMath]_vars

\* One Engine: its lifecycle, its scenes, its renderer, its callbacks, its frames.
NextEngine ==
    \/ Engine_initialize
    \/ Engine_shutdown
    \/ Engine_stop
    \/ Engine_is_running
    \/ \E n \in SceneNames : Engine_create_scene(n)
    \/ \E n \in SceneNames : Engine_get_scene(n)
    \/ \E i \in 1..MaxScenes : Engine_set_active_scene(SceneObj(i))
    \/ Engine_set_active_scene(Null)
    \/ \E r \in Renderers \cup {Null} : Engine_set_renderer(r)
    \/ \E cb \in Callbacks : Engine_add_update_callback(cb)
    \/ \E dt \in DeltaTimes : Engine_update(dt)
    \/ Engine_render

SpecEngine == Init /\ [][NextEngine]_vars

(***************************************************************************)
(* Properties.                                                              *)
(***************************************************************************)
\* The least element of a non-empty set of integers.
Min(S) == CHOOSE x \in S : \A y \in S : x <= y

\* C1: createScene on a Context never initialized throws "Context not
\* initialized", returns no scene, creates none and leaves the Context
\* uninitialized; on an initialized Context it throws nothing and returns a
\* scene whose getGaussianCount() is 0.
C1_CreateSceneNeedsInitialize ==
    /\ ~initialized => Len(gaussians) = 0
    /\ call.op = "Context::createScene" =>
         IF ~initialized
         THEN call.thrown = "Context not initialized" /\ call.ret = Null
         ELSE /\ call.thrown = ""
              /\ call.ret \in GScenes
              /\ getGaussianCount(call.ret) = 0

\* C1 witness: createScene has just failed on an uninitialized Context.
C1_Witness ==
    /\ call.op = "Context::createScene"
    /\ ~initialized
    /\ call.thrown = "Context not initialized"

\* C2: on every Gaussian scene getGaussianCount() equals the number of
\* addGaussian calls made on it, whatever else was called in between.
C2_CountIsNumberOfAdds ==
    \A s \in GScenes : getGaussianCount(s) = addCalls[s]

\* C2 witness: a scene that got the same Gaussian several times among its adds,
\* and has just been asked for its loss.
C2_Witness ==
    /\ call.op = "SceneImpl::computeRenderingLoss"
    /\ addCalls[call.arg] = 3
    /\ getGaussianCount(call.arg) = 3
    /\ gaussians[call.arg][1] = gaussians[call.arg][2]

\* C3: find_entity(name) is the earliest element of the entity sequence whose
\* current name is the query, and null when no element has that name;
\* get_scene(name) is null for a name with no registered scene; neither throws.
C3_LookupFirstOrAbsent ==
    /\ \A n \in Names \cup {""} :
         LET hits == { i \in 1..Len(entities_) : name_[entities_[i]] = n }
         IN  find_entity(n) = IF hits = {} THEN Null ELSE entities_[Min(hits)]
    /\ \A n \in SceneNames :
         (\A m \in DOMAIN scenes : m # n) => get_scene(n) = Null
    /\ call.op = "Scene::find_entity" =>
         /\ call.thrown = ""
         /\ call.ret = find_entity(call.arg)
    /\ call.op = "Engine::get_scene" =>
         /\ call.thrown = ""
         /\ call.ret = get_scene(call.arg)

\* C3 witness: two different entities carry the same name, find_entity has just
\* answered with the one inserted first, the other name is absent, and one
\* scene name is registered while the other is not.
C3_Witness ==
    /\ Len(entities_) >= 2
    /\ entities_[1] # entities_[2]
    /\ name_[entities_[1]] = "A"
    /\ name_[entities_[2]] = "A"
    /\ call.op = "Scene::find_entity"
    /\ call.arg = "A"
    /\ call.ret = entities_[1]
    /\ find_entity("B") = Null
    /\ get_scene("S") # Null
    /\ get_scene("T") = Null

\* C4: remove_entity(e) removes the first element identical to e, keeps the
\* others in their order, and leaves the sequence alone when e is not in it.
C4_RemoveFirstOccurrence ==
    [][call'.op = "Scene::remove_entity" =>
         LET hits == { i \in 1..Len(entities_) : entities_[i] = call'.arg }
         IN  IF hits = {}
             THEN entities_' = entities_
             ELSE /\ Len(entities_') = Len(entities_) - 1
                  /\ \A i \in 1..Len(entities_') :
                       entities_'[i] = IF i < Min(hits) THEN entities_[i]
                                       ELSE entities_[i + 1]]_vars

\* C4 witness: cam1 has just been removed from a sequence holding it twice or
\* before ent1; ent1 and the later cam1 remain, in that order.
C4_Witness ==
    /\ call.op = "Scene::remove_entity"
    /\ call.arg = "cam1"
    /\ entities_ = <<"ent1", "cam1">>

\* C5: add_entity(e) and create_entity put e at the end of the sequence, one
\* element longer, the earlier elements unchanged, also when e or its name is
\* already there.
C5_AddAppends ==
    [][call'.op \in {"Scene::add_entity", "Scene::create_entity"} =>
         LET e == IF call'.op = "Scene::add_entity" THEN call'.arg ELSE call'.ret
         IN  /\ Len(entities_') = Len(entities_) + 1
             /\ \A i \in 1..Len(entities_) : entities_'[i] = entities_[i]
             /\ entities_'[Len(entities_')] = e]_vars

\* C5 witness: the entity just added was already in the sequence.
C5_Witness ==
    /\ call.op = "Scene::add_entity"
    /\ Occurrences(entities_, call.arg) >= 2
    /\ entities_[Len(entities_)] = call.arg

\* C6: Scene::update(dt) invokes one update hook per element of the sequence,
\* in sequence order, each with dt, and so none of an entity not in it.
C6_UpdateFansOut ==
    call.op = "Scene::update" =>
        /\ Len(call.ret) = Len(entities_)
        /\ \A i \in 1..Len(call.ret) :
             /\ call.ret[i][1] = entities_[i]
             /\ call.ret[i][2] = call.arg
        /\ \A o \in Objs :
             Cardinality({ i \in 1..Len(call.ret) : call.ret[i][1] = o })
                 = Occurrences(entities_, o)

\* C6 witness: an update over a sequence with ent1 twice, while cam1 is alive
\* but not in the sequence.
C6_Witness ==
    /\ call.op = "Scene::update"
    /\ entities_ = <<"ent1", "ent1">>
    /\ "cam1" \in alive
    /\ Len(call.ret) = 2

\* C7: set_active_camera(c) stores c, whether or not c is in the sequence, and
\* leaves the sequence alone; nothing else changes the active camera, so
\* get_active_camera() is the argument of the latest set_active_camera.
C7_ActiveCameraIsLastSet ==
    [][/\ call'.op = "Scene::set_active_camera" =>
             /\ active_camera_' = call'.arg
             /\ get_active_camera' = call'.arg
             /\ entities_' = entities_
             /\ call'.thrown = ""
       /\ call'.op # "Scene::set_active_camera" => active_camera_' = active_camera_]_vars

\* C7 witness: the camera just made active is in no position of the sequence.
C7_Witness ==
    /\ call.op = "Scene::set_active_camera"
    /\ call.arg = "cam1"
    /\ get_active_camera = "cam1"
    /\ Occurrences(entities_, "cam1") = 0
    /\ Len(entities_) > 0

\* C8 as stated: a camera that only active_camera_ still refers to has been
\* destroyed.
C8_ActiveCameraNonOwning ==
    \A c \in Cameras :
        (active_camera_ = c /\ c \notin ext /\ Occurrences(entities_, c) = 0)
            => c \notin alive

\* C8, amended: active_camera_ owns its camera. An object is alive exactly
\* while the caller, the entity sequence or active_camera_ refers to it, so
\* the active camera is alive even when nothing else refers to it.
C8_ActiveCameraOwns ==
    /\ active_camera_ # Null => active_camera_ \in alive
    /\ \A o \in Objs :
         o \in alive <=>
            (o \in ext \/ Occurrences(entities_, o) > 0 \/ active_camera_ = o)

\* C8 witness: cam1 is the active camera, alive, and held by nothing else; the
\* caller has just let go of it.
C8_Witness ==
    /\ call.op = "release"
    /\ call.arg = "cam1"
    /\ active_camera_ = "cam1"
    /\ "cam1" \notin ext
    /\ Occurrences(entities_, "cam1") = 0
    /\ "cam1" \in alive

\* The operations of a Camera, other than the two projection setters, that
\* take the camera first in a tuple of arguments, and those that take it alone.
OtherCameraOpsTuple == {"Camera::look_at", "Entity::set_name", "Entity::set_transform",
                        "Entity::update"}
OtherCameraOpsAlone == {"Camera::get_view_matrix", "Camera::get_projection_matrix"}

\* C9: a new Camera is in Perspective mode; set_perspective always ends in
\* Perspective and set_orthographic in Orthographic, from either mode and without
\* failing; look_at, get_view_matrix, get_projection_matrix, set_name,
\* set_transform and update keep the mode.
C9_ProjectionModeMachine ==
    [][/\ call'.op = "make_shared" /\ call'.ret \in Cameras =>
             projection_type_'[call'.ret] = "Perspective"
       /\ call'.op = "Camera::set_perspective" =>
             /\ projection_type_'[call'.arg[1]] = "Perspective"
             /\ call'.thrown = ""
       /\ call'.op = "Camera::set_orthographic" =>
             /\ projection_type_'[call'.arg[1]] = "Orthographic"
             /\ call'.thrown = ""
       /\ call'.op \in OtherCameraOpsTuple \cup OtherCameraOpsAlone =>
             projection_type_' = projection_type_]_vars

\* C9 witness: set_perspective has just put a camera into Perspective mode whose
\* orthographic bounds show that set_orthographic was called on it before.
C9_Witness ==
    /\ call.op = "Camera::set_perspective"
    /\ projection_type_[call.arg[1]] = "Perspective"
    /\ ortho_left_[call.arg[1]] # DefaultOrthoLow
    /\ ortho_top_[call.arg[1]] # DefaultOrthoHigh

\* C10 as stated: set_orthographic keeps fov, aspect ratio, near and far, and
\* set_perspective keeps left, right, bottom, top, near and far.
C10_SettersKeepOtherMode ==
    [][/\ call'.op = "Camera::set_orthographic" =>
             /\ fov_' = fov_
             /\ aspect_ratio_' = aspect_ratio_
             /\ near_' = near_
             /\ far_' = far_
       /\ call'.op = "Camera::set_perspective" =>
             /\ ortho_left_' = ortho_left_
             /\ ortho_right_' = ortho_right_
             /\ ortho_bottom_' = ortho_bottom_
             /\ ortho_top_' = ortho_top_
             /\ near_' = near_
             /\ far_' = far_]_vars

\* C10, amended: set_orthographic keeps fov and aspect ratio, set_perspective
\* keeps left, right, bottom and top; near_ and far_ are one pair of fields
\* used by both modes, and each setter overwrites them with its arguments.
C10_SettersKeepOtherModeButNearFar ==
    [][/\ call'.op = "Camera::set_orthographic" =>
             /\ fov_' = fov_
             /\ aspect_ratio_' = aspect_ratio_
             /\ near_'[call'.arg[1]] = call'.arg[6]
             /\ far_'[call'.arg[1]] = call'.arg[7]
       /\ call'.op = "Camera::set_perspective" =>
             /\ ortho_left_' = ortho_left_
             /\ ortho_right_' = ortho_right_
             /\ ortho_bottom_' = ortho_bottom_
             /\ ortho_top_' = ortho_top_
             /\ near_'[call'.arg[1]] = call'.arg[4]
             /\ far_'[call'.arg[1]] = call'.arg[5]]_vars

\* C10 witness: set_orthographic has just been called on a camera that keeps a
\* fov and an aspect ratio set earlier, with a near plane that is its own.
C10_Witness ==
    /\ call.op = "Camera::set_orthographic"
    /\ fov_[call.arg[1]] # DefaultFov
    /\ aspect_ratio_[call.arg[1]] # DefaultAspect
    /\ near_[call.arg[1]] = <<-1, 1>>
    /\ call.arg[6] = <<-1, 1>>

\* Equality of two floats as operator== decides it: NaN equals nothing.
NumEq(a, b) == ~IsNaN(a) /\ ~IsNaN(b) /\ a = b

\* Equality, entry by entry, of two vectors or two matrices of floats.
VecEq(a, b) == \A i \in DOMAIN a : NumEq(a[i], b[i])
MatEq(A, B) == \A i \in 1..4 : \A j \in 1..4 : NumEq(A[i][j], B[i][j])

\* C11: get_projection_matrix returns Matrix4::perspective(fov, aspect, near, far)
\* exactly when the mode is Perspective and the inline orthographic matrix
\* otherwise; the Perspective result has m[3][2] = -1 and m[3][3] = 0 whatever the
\* parameters, the Orthographic result has the bottom row (0, 0, 0, 1).
C11_ProjectionMatrixByMode ==
    call.op = "Camera::get_projection_matrix" =>
        LET c == call.arg
            M == call.ret
            isPerspective == projection_type_[c] = "Perspective"
        IN  /\ isPerspective <=> M = perspective(fov_[c], aspect_ratio_[c], near_[c], far_[c])
            /\ ~isPerspective <=> M = ortho(c)
            /\ isPerspective => M[4][3] = R(-1) /\ M[4][4] = R(0)
            /\ ~isPerspective =>
                  /\ M[4] = Vec(<<0, 0, 0, 1>>)
                  /\ M[1][1] = RDiv(R(2), RSub(ortho_right_[c], ortho_left_[c]))
                  /\ M[3][4] = RDiv(RNeg(RAdd(far_[c], near_[c])), RSub(far_[c], near_[c]))

\* C11 witness: the projection matrix of a Perspective camera whose near and
\* far planes coincide has just been returned; its depth entries are not finite.
C11_Witness ==
    /\ call.op = "Camera::get_projection_matrix"
    /\ projection_type_[call.arg] = "Perspective"
    /\ near_[call.arg] = far_[call.arg]
    /\ ~IsFinite(call.ret[3][3])
    /\ call.ret[4][3] = R(-1)

\* C12: look_at(target, up), for any target and up (the camera's own position as
\* target and an up parallel to the view direction included), does not fail and
\* leaves the Transform, the name, the projection mode and the projection
\* parameters as they were, so that get_view_matrix gives the same matrix before
\* and after (the view matrix is built from the Transform alone: it is compared
\* only where the Transform differs).
C12_LookAtStoresNothing ==
    [][call'.op = "Camera::look_at" =>
          /\ call'.thrown = ""
          /\ transform_' = transform_
          /\ name_' = name_
          /\ camVars' = camVars
          /\ \A c \in Cameras :
                \/ transform_'[c] = transform_[c]
                \/ view_matrix(transform_'[c]) = get_view_matrix(c)]_vars

\* C12 witness: look_at has just been called on a moved camera with a target
\* for which the up vector is parallel to the view direction: the right and
\* new_up rows of the matrix it built are zero.
C12_Witness ==
    /\ call.op = "Camera::look_at"
    /\ transform_[call.arg[1]].position # <<0, 0, 0>>
    /\ LET M == look_at_rotation_matrix(call.arg[1], call.arg[2], call.arg[3])
       IN  /\ M[1] = Vec(<<0, 0, 0, 0>>)
           /\ M[2] = Vec(<<0, 0, 0, 0>>)
           /\ M[3] # Vec(<<0, 0, 0, 0>>)

\* Points of space a transform's matrix is applied to.
PointVals == { <<0, 0, 0>>, <<1, 1, 1>>, <<-2, 5, 7>> }

\* C13: Transform::to_matrix is translation(position) * rotation.to_matrix() *
\* scale(scale); with the identity rotation it maps (x, y, z, 1) to
\* (scale.x*x + position.x, scale.y*y + position.y, scale.z*z + position.z, 1), the
\* translation not being scaled; with position (1, 2, 3) and scale (1, 1, 1) it
\* maps the origin to (1, 2, 3, 1).
C13_TransformIsTRS ==
    call.op = "Transform::to_matrix" =>
        LET t == call.arg
            M == call.ret
        IN  /\ M = MatMul(MatMul(translation(Vec(t.position)), QuatToMatrix(Vec(t.rotation))),
                          scale(Vec(t.scale)))
            /\ t.rotation = <<0, 0, 0, 1>> =>
                  \A p \in PointVals :
                      VecEq(MatVec(M, Vec(<<p[1], p[2], p[3], 1>>)),
                            Vec(<<t.scale[1] * p[1] + t.position[1],
                                  t.scale[2] * p[2] + t.position[2],
                                  t.scale[3] * p[3] + t.position[3], 1>>))
            /\ (t.rotation = <<0, 0, 0, 1>> /\ t.position = <<1, 2, 3>> /\ t.scale = <<1, 1, 1>>) =>
                  VecEq(MatVec(M, Vec(<<0, 0, 0, 1>>)), Vec(<<1, 2, 3, 1>>))

\* C13 witness: the matrix of a transform that both moves and scales, with the
\* identity rotation, has just been built; the point (1, 1, 1) goes to scale + position.
C13_Witness ==
    /\ call.op = "Transform::to_matrix"
    /\ call.arg.rotation = <<0, 0, 0, 1>>
    /\ call.arg.position = <<1, 2, 3>>
    /\ call.arg.scale = <<2, 0, -3>>
    /\ MatVec(call.ret, Vec(<<1, 1, 1, 1>>)) = Vec(<<3, 2, 0, 1>>)

\* Every component of a vector, every entry of a matrix, is a finite float.
VecFinite(v) == \A i \in DOMAIN v : IsFinite(v[i])
MatFinite(M) == \A i \in 1..4 : VecFinite(M[i])

\* C14 as stated: for every matrix M, identity * M == M and M * identity == M,
\* entry by entry.
C14_IdentityIsUnit ==
    call.op = "Matrix4::operator*" =>
        /\ call.arg[1] = identity => MatEq(call.ret, call.arg[2])
        /\ call.arg[2] = identity => MatEq(call.ret, call.arg[1])

\* C14, amended: for every matrix M whose sixteen entries are finite,
\* identity * M == M and M * identity == M, entry by entry.  (An infinite entry
\* meets a 0 of the identity in the sums and 0 * inf is NaN.)
C14_IdentityIsUnitOfFinite ==
    call.op = "Matrix4::operator*" =>
        /\ (call.arg[1] = identity /\ MatFinite(call.arg[2])) => MatEq(call.ret, call.arg[2])
        /\ (call.arg[2] = identity /\ MatFinite(call.arg[1])) => MatEq(call.ret, call.arg[1])

\* C14 witness: identity times the default perspective matrix, all of whose
\* entries are finite, has just been computed and is that matrix.
C14_Witness ==
    /\ call.op = "Matrix4::operator*"
    /\ call.arg[1] = identity
    /\ call.arg[2] = perspective(<<45, 1>>, <<16, 9>>, <<1, 10>>, <<1000, 1>>)
    /\ MatFinite(call.arg[2])
    /\ MatEq(call.ret, call.arg[2])

\* The vector -v.
VNeg(v) == [i \in DOMAIN v |-> RNeg(v[i])]

\* C15 as stated: for all vectors a and b, each component of a.cross(b) is the
\* negation of that of b.cross(a); hence a.cross(a) is the zero vector.
C15_CrossAnticommutes ==
    call.op = "Vector3::cross" =>
        /\ VecEq(call.ret, VNeg(cross(call.arg[2], call.arg[1])))
        /\ call.arg[1] = call.arg[2] => VecEq(call.ret, Vec(<<0, 0, 0>>))

\* C15, amended: for all vectors a and b with finite components (and products
\* that stay finite), each component of a.cross(b) is the negation of that of
\* b.cross(a), and a.cross(a) is the zero vector.
C15_CrossAnticommutesOnFinite ==
    (call.op = "Vector3::cross" /\ VecFinite(call.arg[1]) /\ VecFinite(call.arg[2])) =>
            /\ VecEq(call.ret, VNeg(cross(call.arg[2], call.arg[1])))
            /\ call.arg[1] = call.arg[2] => VecEq(call.ret, Vec(<<0, 0, 0>>))

\* C15 witness: the cross product of (0, 3, 4) and (1, 2, 2) has just been
\* computed; it is not zero.
C15_Witness ==
    /\ call.op = "Vector3::cross"
    /\ call.arg = <<Vec(<<0, 3, 4>>), Vec(<<1, 2, 2>>)>>
    /\ call.ret = Vec(<<-2, 4, -3>>)

\* C16: Quaternion().to_matrix() equals Matrix4::identity() in all sixteen
\* entries; for any quaternion the fourth row and the fourth column of
\* to_matrix() are (0, 0, 0, 1).
C16_QuaternionMatrix ==
    call.op = "Quaternion::to_matrix" =>
        /\ call.arg = Vec(<<0, 0, 0, 1>>) => MatEq(call.ret, identity)
        /\ VecEq(call.ret[4], Vec(<<0, 0, 0, 1>>))
        /\ VecEq(<<call.ret[1][4], call.ret[2][4], call.ret[3][4], call.ret[4][4]>>,
                 Vec(<<0, 0, 0, 1>>))

\* C16 witness: the default quaternion (0, 0, 0, 1) has just been turned into a
\* matrix, which is the identity.
C16_Witness ==
    /\ call.op = "Quaternion::to_matrix"
    /\ call.arg = Vec(<<0, 0, 0, 1>>)
    /\ call.ret = identity

\* C17 as stated: for any vector v with length > 0, v.normalized() has length
\* 1; the zero vector gives the zero vector.
C17_NormalizedHasLengthOne ==
    call.op = "Vector3::normalized" =>
        /\ RGt(length(call.arg), R(0)) => NumEq(length(call.ret), R(1))
        /\ call.arg = Vec(<<0, 0, 0>>) => call.ret = Vec(<<0, 0, 0>>)

\* C17, amended: for any vector v with finite components and length > 0,
\* v.normalized() is v scaled by 1 / length(), so that its squared length times
\* length() squared is x*x + y*y + z*z: its length is 1 as far as the square
\* root is exact.  The zero vector gives the zero vector.
C17_NormalizedOfFinite ==
    call.op = "Vector3::normalized" =>
        LET v == call.arg
            n == call.ret
            len == length(v)
        IN  /\ (VecFinite(v) /\ RGt(len, R(0))) =>
                  /\ n = VScale(v, RDiv(R(1), len))
                  /\ NumEq(RMul(dot(n, n), RMul(len, len)), dot(v, v))
                  /\ RMul(len, len) = dot(v, v) => NumEq(length(n), R(1))
            /\ v = Vec(<<0, 0, 0>>) => n = Vec(<<0, 0, 0>>)

\* C17 witness: (0, 3, 4), of length 5, has just been normalized to
\* (0, 3/5, 4/5), of length 1.
C17_Witness ==
    /\ call.op = "Vector3::normalized"
    /\ call.arg = Vec(<<0, 3, 4>>)
    /\ call.ret = <<R(0), <<3, 5>>, <<4, 5>>>>
    /\ length(call.ret) = R(1)

\* C18: get_view_matrix builds the rows (right, up, -forward) with the
\* translation column (-right.pos, -up.pos, forward.pos) and the bottom row
\* (0, 0, 0, 1); for a camera with the identity rotation at position p the result
\* is translation(-p), so that its product with translation(p) is the identity
\* and it maps the camera's position to the origin.
C18_ViewMatrix ==
    call.op = "Camera::get_view_matrix" =>
        LET t == transform_[call.arg]
            M == call.ret
            pos == Vec(t.position)
            rot == QuatToMatrix(Vec(t.rotation))
            f4 == MatVec(rot, Vec(<<0, 0, -1, 0>>))
            u4 == MatVec(rot, Vec(<<0, 1, 0, 0>>))
            forward == <<f4[1], f4[2], f4[3]>>
            right == normalized(cross(forward, <<u4[1], u4[2], u4[3]>>))
            up == normalized(cross(right, forward))
        IN  /\ M[1] = <<right[1], right[2], right[3], RNeg(dot(right, pos))>>
            /\ M[2] = <<up[1], up[2], up[3], RNeg(dot(up, pos))>>
            /\ M[3] = <<RNeg(forward[1]), RNeg(forward[2]), RNeg(forward[3]), dot(forward, pos)>>
            /\ M[4] = Vec(<<0, 0, 0, 1>>)
            /\ t.rotation = <<0, 0, 0, 1>> =>
                  /\ MatEq(M, translation(VNeg(pos)))
                  /\ MatEq(MatMul(M, translation(pos)), identity)
                  /\ VecEq(MatVec(M, <<pos[1], pos[2], pos[3], R(1)>>), Vec(<<0, 0, 0, 1>>))

\* C18 witness: the view matrix of a camera with the identity rotation at
\* (1, 2, 3) has just been returned; it is the translation by (-1, -2, -3).
C18_Witness ==
    /\ call.op = "Camera::get_view_matrix"
    /\ transform_[call.arg].rotation = <<0, 0, 0, 1>>
    /\ transform_[call.arg].position = <<1, 2, 3>>
    /\ call.ret = translation(Vec(<<-1, -2, -3>>))

\* C19 as stated: a new Camera is in Perspective mode with fov 45, aspect 16/9,
\* near 0.1 and far 1000, and the orthographic volume it stores (left, right,
\* bottom, top, near, far) is a unit cube: as deep as it is wide and high.
C19_NewCameraOrthoCube ==
    (call.op = "make_shared" /\ call.ret \in Cameras) =>
        LET c == call.ret
        IN  /\ projection_type_[c] = "Perspective"
            /\ fov_[c] = <<45, 1>> /\ aspect_ratio_[c] = <<16, 9>>
            /\ near_[c] = <<1, 10>> /\ far_[c] = <<1000, 1>>
            /\ ortho_left_[c] = R(-1) /\ ortho_right_[c] = R(1)
            /\ ortho_bottom_[c] = R(-1) /\ ortho_top_[c] = R(1)
            /\ RSub(far_[c], near_[c]) = RSub(ortho_right_[c], ortho_left_[c])

\* C19, amended: a new Camera is in Perspective mode with fov 45, aspect 16/9,
\* near 0.1 and far 1000; its orthographic left, right, bottom and top are -1, 1,
\* -1 and 1, and the near and far its orthographic matrix is built from are the
\* same near_ = 0.1 and far_ = 1000, a depth of 999.9 against a width of 2.
C19_NewCameraDefaults ==
    (call.op = "make_shared" /\ call.ret \in Cameras) =>
        LET c == call.ret
        IN  /\ projection_type_[c] = "Perspective"
            /\ fov_[c] = <<45, 1>> /\ aspect_ratio_[c] = <<16, 9>>
            /\ near_[c] = <<1, 10>> /\ far_[c] = <<1000, 1>>
            /\ ortho_left_[c] = R(-1) /\ ortho_right_[c] = R(1)
            /\ ortho_bottom_[c] = R(-1) /\ ortho_top_[c] = R(1)
            /\ ortho(c)[3][3] = RDiv(R(-2), RSub(<<1000, 1>>, <<1, 10>>))
            /\ RSub(far_[c], near_[c]) = <<9999, 10>>
            /\ RSub(ortho_right_[c], ortho_left_[c]) = R(2)

\* C19 witness: a Camera has just been constructed.
C19_Witness ==
    /\ call.op = "make_shared"
    /\ call.ret \in Cameras
    /\ call.ret \in alive
    /\ fov_[call.ret] = <<45, 1>>
    /\ ortho_top_[call.ret] = R(1)

\* C20: remove_entity never changes the active camera: once c has been made
\* the active camera and removed, get_active_camera and a renderer's render_scene
\* still find c, while update calls the hook of the members of entities_ only.
C20_RemoveKeepsActiveCamera ==
    [][/\ call'.op = "Scene::remove_entity" => active_camera_' = active_camera_
       /\ call'.op = "Scene::get_active_camera" => call'.ret = active_camera_
       /\ call'.op = "OpenGLRenderer::render_scene" =>
             /\ call'.ret.camera = active_camera_
             /\ active_camera_ # Null => call'.ret.log = <<>>
       /\ call'.op = "Scene::update" =>
             \A i \in 1..Len(call'.ret) : Occurrences(entities_, call'.ret[i][1]) > 0]_vars

\* C20 witness: the active camera has just been removed from the sequence: it
\* is not a member any more and it is still the active camera.
C20_Witness ==
    /\ call.op = "Scene::remove_entity"
    /\ call.arg = "cam1"
    /\ active_camera_ = "cam1"
    /\ Occurrences(entities_, "cam1") = 0
    /\ entities_ # <<>>

\* C21: initialize returns true and makes is_running true, and changes nothing
\* when the engine is already running; shutdown while running sets running to
\* false, calls the renderer's shutdown once if a renderer is set, empties the
\* scene map and clears the active scene; shutdown while not running makes no
\* renderer call and leaves the scene map, the active scene and the renderer as
\* they were.
C21_EngineLifecycle ==
    [][/\ call'.op = "Engine::initialize" =>
             /\ call'.ret = TRUE
             /\ running_' = TRUE
             /\ running_ => engineVars' = engineVars
       /\ call'.op = "Engine::is_running" => call'.ret = running_'
       /\ (call'.op = "Engine::shutdown" /\ running_) =>
             /\ running_' = FALSE
             /\ call'.ret = (IF renderer # Null THEN <<"shutdown">> ELSE <<>>)
             /\ scenes' = EmptyMap
             /\ active_scene' = Null
             /\ renderer' = renderer
       /\ (call'.op = "Engine::shutdown" /\ ~running_) =>
             /\ call'.ret = <<>>
             /\ engineVars' = engineVars]_vars

\* C21 witness: shutdown has just been called on an engine that was stopped
\* with a renderer set and scenes registered; all of them are still there.
C21_Witness ==
    /\ call.op = "Engine::shutdown"
    /\ ~running_
    /\ call.ret = <<>>
    /\ renderer # Null
    /\ active_scene # Null
    /\ DOMAIN scenes = SceneNames

\* C22: update(dt) makes no call while the engine is not running; while running
\* it first updates the active scene, if there is one, and then invokes every
\* registered callback once, in registration order, each with the same dt; no
\* scene other than the active one is updated.
C22_UpdateOrder ==
    call.op = "Engine::update" =>
        LET T == call.ret
            dt == call.arg
            off == IF active_scene # Null THEN 1 ELSE 0
        IN  /\ ~running_ => T = <<>>
            /\ running_ =>
                  /\ Len(T) = off + Len(update_callbacks_)
                  /\ active_scene # Null => T[1] = <<"Scene::update", active_scene, dt>>
                  /\ \A i \in 1..Len(update_callbacks_) :
                        T[off + i] = <<"callback", update_callbacks_[i], dt>>
                  /\ \A i \in 1..Len(T) :
                        T[i][1] = "Scene::update" => (i = 1 /\ T[i][2] = active_scene)

\* C22 witness: a running engine with two registered scenes, one of them
\* active, and two callbacks has just been updated: three calls were made.
C22_Witness ==
    /\ call.op = "Engine::update"
    /\ running_
    /\ active_scene # Null
    /\ \E n \in DOMAIN scenes : scenes[n] # active_scene
    /\ Len(update_callbacks_) = 2
    /\ update_callbacks_[1] # update_callbacks_[2]
    /\ Len(call.ret) = 3

\* C23: create_scene(name) works whether or not the engine is running; it
\* registers a new scene under name, in place of any scene registered under
\* that name before, so that get_scene(name) returns the latest one; it makes
\* the new scene active only when no scene is active.  Hence no call other
\* than set_active_scene and shutdown changes an active scene that is set.
C23_CreateSceneRegistry ==
    [][/\ call'.op = "Engine::create_scene" =>
             /\ call'.thrown = ""
             /\ call'.ret \notin SceneObjs
             /\ DOMAIN scenes' = DOMAIN scenes \cup {call'.arg}
             /\ scenes'[call'.arg] = call'.ret
             /\ \A n \in DOMAIN scenes \ {call'.arg} : scenes'[n] = scenes[n]
             /\ active_scene' = IF active_scene = Null THEN call'.ret ELSE active_scene
             /\ running_' = running_
       /\ call'.op = "Engine::get_scene" =>
             call'.ret = IF call'.arg \in DOMAIN scenes THEN scenes[call'.arg] ELSE Null
       /\ (call'.op \notin {"Engine::set_active_scene", "Engine::shutdown"}
             /\ active_scene # Null) =>
             active_scene' = active_scene]_vars

\* C23 witness: on an engine that is not running, a second scene has just been
\* created under the name of the first: the name now gives the second scene and
\* the first is still the active one.
C23_Witness ==
    /\ call.op = "Engine::create_scene"
    /\ ~running_
    /\ DOMAIN scenes = {call.arg}
    /\ scenes[call.arg] = call.ret
    /\ call.ret = SceneObj(2)
    /\ active_scene = SceneObj(1)

\* C24: render calls the renderer's begin_frame, then render_scene on the
\* active scene, then end_frame, each once and in that order, if and only if
\* the engine is running, a renderer is set and a scene is active; otherwise it
\* makes no call on the renderer.  Every begin_frame is thus followed by its
\* end_frame.
C24_RenderFrame ==
    call.op = "Engine::render" =>
        LET T == call.ret
            ready == running_ /\ renderer # Null /\ active_scene # Null
        IN  /\ ready <=> T = << <<"begin_frame", renderer>>,
                                <<"render_scene", renderer, active_scene>>,
                                <<"end_frame", renderer>> >>
            /\ ~ready <=> T = <<>>
            /\ \A i \in 1..Len(T) :
                  T[i][1] = "begin_frame" =>
                      /\ i + 2 <= Len(T)
                      /\ T[i + 2][1] = "end_frame"
            /\ Cardinality({i \in 1..Len(T) : T[i][1] = "begin_frame"})
                  = Cardinality({i \in 1..Len(T) : T[i][1] = "end_frame"})

\* C24 witness: a frame has just been rendered by a running engine with a
\* renderer and an active scene: three calls were made on the renderer.
C24_Witness ==
    /\ call.op = "Engine::render"
    /\ running_
    /\ renderer # Null
    /\ active_scene # Null
    /\ Len(call.ret) = 3
    /\ call.ret[2] = <<"render_scene", renderer, active_scene>>

====
